---- MODULE Spec2Model ----
(***************************************************************************)
(* Model of main.py: the scheduled role job of the bot.  One run resolves  *)
(* the grant role, runs the role-pair scan (process_role_pairs) and then   *)
(* the threshold scan (process_single_user / process_full_scan).  Times    *)
(* are whole days.  A text is a sequence of one-character strings.  The    *)
(* guild holds the roles GuildRoles; every other id does not resolve.      *)
(***************************************************************************)
EXTENDS Integers, Sequences, FiniteSets, TLC

VARIABLES
    cfg,          \* the module-level configuration read from the environment
    now,          \* datetime.now(timezone.utc), in days
    faults,       \* the failures a call to the platform may end with
    bot,          \* member.bot of every member of the guild
    created_at,   \* member.created_at, the day the account was created
    joined_at,    \* member.joined_at: <<>> when absent, else <<day>>
    roles,        \* the guild's directory: the role ids every member holds
    pc,           \* position of run_job
    idx,          \* position of the running fetch_members iteration
    sec_roles,    \* process_role_pairs: the resolved secondary roles, 0 for None
    affected,     \* process_role_pairs: counter of affected members
    changed,      \* process_full_scan: counter of updated members
    log,          \* the calls issued to the platform in this run, in order
    pairSeen,     \* members the role-pair loop has fetched in this run
    pairSnap,     \* member.roles as the role-pair loop read it
    pairCounted,  \* members that incremented `affected`
    evaluated,    \* members add_role_if_needed was called for in this run
    tenureSnap,   \* member.roles as add_role_if_needed read it
    granted,      \* members add_role_if_needed returned True for
    roles0,       \* the directory as it was when this run started
    runNo,        \* number of the current run of the job
    prev,         \* <<summary of the previous run>>, <<>> in the first run
    errors,       \* the messages of logging.error in this run
    exit_code     \* <<>> while the process runs, then <<its exit status>>

vars == <<cfg, now, faults, bot, created_at, joined_at, roles, pc, idx, sec_roles,
          affected, changed, log, pairSeen, pairSnap, pairCounted, evaluated,
          tenureSnap, granted, roles0, runNo, prev, errors, exit_code>>

\* Bounds of the model.
NumMembers == 2
MaxRuns == 2

Members == 1..NumMembers
GuildRoles == {1, 2, 3}
\* discord.Forbidden and discord.HTTPException, the failures the code catches
Failures == {"Forbidden", "HTTPException"}

\* what a call to the platform may end with
Outcomes == {"ok"} \cup faults

Max(a, b) == IF a >= b THEN a ELSE b

\* ------------------------------------------------------------------------
\* Texts: str.split("\n"), str.strip()
\* ------------------------------------------------------------------------
Whitespace == {" ", "\n"}

RECURSIVE LStrip(_)
LStrip(s) == IF s # <<>> /\ Head(s) \in Whitespace THEN LStrip(Tail(s)) ELSE s

RECURSIVE RStrip(_)
RStrip(s) ==
    IF s # <<>> /\ s[Len(s)] \in Whitespace
    THEN RStrip(SubSeq(s, 1, Len(s) - 1))
    ELSE s

Strip(s) == RStrip(LStrip(s))

RECURSIVE SplitNL(_)
SplitNL(t) ==
    IF \A i \in 1..Len(t) : t[i] # "\n"
    THEN <<t>>
    ELSE LET k == CHOOSE i \in 1..Len(t) :
                      t[i] = "\n" /\ \A j \in 1..(i - 1) : t[j] # "\n"
         IN  <<SubSeq(t, 1, k - 1)>> \o SplitNL(SubSeq(t, k + 1, Len(t)))

NonEmpty(s) == s # <<>>

\* lines = [ln.strip() for ln in text.split("\n") if ln.strip()]
Lines(text) ==
    LET parts == SplitNL(text)
    IN  SelectSeq([i \in 1..Len(parts) |-> Strip(parts[i])], NonEmpty)

\* ------------------------------------------------------------------------
\* Calls to the platform
\* ------------------------------------------------------------------------
RoleCall(op, from, m, role, result) ==
    [op |-> op, from |-> from, member |-> m, role |-> role, text |-> <<>>,
     result |-> result]

SendCall(from, m, text, result) ==
    [op |-> "send", from |-> from, member |-> m, role |-> 0, text |-> text,
     result |-> result]

\* guild.get_role(id) / guild.fetch_role(id): the id, or 0 for NotFound
Resolve(id) == IF id \in GuildRoles THEN id ELSE 0

\* ------------------------------------------------------------------------
\* Messaging helpers
\* ------------------------------------------------------------------------
\* send_single_dm, without the DRY_RUN branch
send_single_dm_nodry(m, text, out, lg) ==
    IF text = <<>> THEN lg
    ELSE Append(lg, SendCall("send_single_dm", m, text, out))

\* send_single_dm: one DM, no splitting; `out` is the outcome of member.send
send_single_dm(m, text, out, lg) ==
    IF text = <<>> THEN lg
    ELSE IF cfg.DRY_RUN THEN lg
    ELSE Append(lg, SendCall("send_single_dm", m, text, out))

\* SendLines, without the break in the except clauses
RECURSIVE SendLines_nobreak(_, _, _, _, _)
SendLines_nobreak(m, lines, outs, i, lg) ==
    IF i > Len(lines) THEN lg
    ELSE IF cfg.DRY_RUN THEN SendLines_nobreak(m, lines, outs, i + 1, lg)
    ELSE SendLines_nobreak(m, lines, outs, i + 1,
             Append(lg, SendCall("send_multi_dm", m, lines[i], outs[i])))

RECURSIVE SendLines(_, _, _, _, _)
SendLines(m, lines, outs, i, lg) ==
    IF i > Len(lines) THEN lg
    ELSE IF cfg.DRY_RUN THEN SendLines(m, lines, outs, i + 1, lg)
    ELSE LET lg2 == Append(lg, SendCall("send_multi_dm", m, lines[i], outs[i]))
         IN  IF outs[i] # "ok" THEN lg2
             ELSE SendLines(m, lines, outs, i + 1, lg2)

\* send_multi_dm: one DM per line; outs[i] is the outcome of the i-th send
send_multi_dm(m, text, outs, lg) ==
    IF text = <<>> THEN lg
    ELSE SendLines(m, Lines(text), outs, 1, lg)

\* ------------------------------------------------------------------------
\* Original feature (assign on threshold)
\* ------------------------------------------------------------------------
\* is_past_threshold, without the FORCE_ASSIGN shortcut
is_past_threshold_noforce(m) ==
    (now - created_at[m]) >= Max(0, cfg.THRESHOLD_DAYS)

is_past_threshold(m) ==
    IF cfg.FORCE_ASSIGN THEN TRUE
    ELSE (now - created_at[m]) >= Max(0, cfg.THRESHOLD_DAYS)

\* The four early returns of add_role_if_needed
bot_check(m) == bot[m]

\* already_has, with the check left out
already_has_never(m, role) == FALSE

already_has(m, role) == role \in roles[m]

\* excluded, with all() written for any()
excluded_all(m) == \A r \in roles[m] : r \in cfg.EXCLUDE_ROLE_IDS

excluded(m) == \E r \in roles[m] : r \in cfg.EXCLUDE_ROLE_IDS

skip_member(m, role) ==
    \/ bot_check(m)
    \/ already_has(m, role)
    \/ excluded(m)
    \/ ~is_past_threshold(m)

\* add_failed, with discord.HTTPException not caught as a failure
add_failed_forbidden_only(out) == out = "Forbidden"

\* member.add_roles(role) with outcome `out`: what the except clauses return
add_failed(out) == out \in Failures

\* add_role_if_needed, calling member.add_roles a second time when it failed
add_role_if_needed_retry(m, role, gr, dr) ==
    IF skip_member(m, role)
    THEN [ret |-> FALSE, log |-> log, roles |-> roles]
    ELSE IF cfg.DRY_RUN
    THEN [ret |-> TRUE,
          log |-> send_single_dm(m, cfg.DM_MESSAGE, dr, log),
          roles |-> roles]
    ELSE LET call == RoleCall("add_roles", "add_role_if_needed", m, role, gr)
             lg == Append(log, call)
         IN  IF add_failed(gr)
             THEN [ret |-> FALSE, log |-> Append(lg, call), roles |-> roles]
             ELSE [ret |-> TRUE,
                   log |-> send_single_dm(m, cfg.DM_MESSAGE, dr, lg),
                   roles |-> [roles EXCEPT ![m] = @ \cup {role}]]

\* add_role_if_needed, with the DM sent inside the try block: a failed send
\* is caught as a failed add_roles
add_role_if_needed_dm_in_try(m, role, gr, dr) ==
    IF skip_member(m, role)
    THEN [ret |-> FALSE, log |-> log, roles |-> roles]
    ELSE IF cfg.DRY_RUN
    THEN [ret |-> TRUE,
          log |-> send_single_dm(m, cfg.DM_MESSAGE, dr, log),
          roles |-> roles]
    ELSE LET lg == Append(log, RoleCall("add_roles", "add_role_if_needed", m, role, gr))
         IN  IF add_failed(gr)
             THEN [ret |-> FALSE, log |-> lg, roles |-> roles]
             ELSE [ret |-> (cfg.DM_MESSAGE = <<>> \/ dr = "ok"),
                   log |-> send_single_dm(m, cfg.DM_MESSAGE, dr, lg),
                   roles |-> [roles EXCEPT ![m] = @ \cup {role}]]

\* add_role_if_needed, with the DM sent before member.add_roles is called
add_role_if_needed_dm_first(m, role, gr, dr) ==
    IF skip_member(m, role)
    THEN [ret |-> FALSE, log |-> log, roles |-> roles]
    ELSE IF cfg.DRY_RUN
    THEN [ret |-> TRUE,
          log |-> send_single_dm(m, cfg.DM_MESSAGE, dr, log),
          roles |-> roles]
    ELSE LET lg == Append(send_single_dm(m, cfg.DM_MESSAGE, dr, log),
                          RoleCall("add_roles", "add_role_if_needed", m, role, gr))
         IN  IF add_failed(gr)
             THEN [ret |-> FALSE, log |-> lg, roles |-> roles]
             ELSE [ret |-> TRUE, log |-> lg,
                   roles |-> [roles EXCEPT ![m] = @ \cup {role}]]

\* add_role_if_needed(member, role): [ret, log, roles] after the call, where
\* gr is the outcome of member.add_roles and dr that of member.send
add_role_if_needed(m, role, gr, dr) ==
    IF skip_member(m, role)
    THEN [ret |-> FALSE, log |-> log, roles |-> roles]
    ELSE IF cfg.DRY_RUN
    THEN [ret |-> TRUE,
          log |-> send_single_dm(m, cfg.DM_MESSAGE, dr, log),
          roles |-> roles]
    ELSE LET lg == Append(log, RoleCall("add_roles", "add_role_if_needed", m, role, gr))
         IN  IF add_failed(gr)
             THEN [ret |-> FALSE, log |-> lg, roles |-> roles]
             ELSE [ret |-> TRUE,
                   log |-> send_single_dm(m, cfg.DM_MESSAGE, dr, lg),
                   roles |-> [roles EXCEPT ![m] = @ \cup {role}]]

\* ------------------------------------------------------------------------
\* New feature (role-pair scanner)
\* ------------------------------------------------------------------------
\* "Role-pair scan not configured"
pairs_unconfigured ==
    cfg.PAIR_PRIMARY_ROLE_ID = 0 \/ cfg.PAIR_SECONDARY_ROLE_IDS = <<>>

\* sec_roles with the roles that are not found left out of the list
resolve_secondary_dropping ==
    SelectSeq([i \in 1..Len(cfg.PAIR_SECONDARY_ROLE_IDS) |->
                   Resolve(cfg.PAIR_SECONDARY_ROLE_IDS[i])],
              LAMBDA r : r # 0)

\* sec_roles: (index, Role|None) for every configured secondary id
resolve_secondary ==
    [i \in 1..Len(cfg.PAIR_SECONDARY_ROLE_IDS) |->
        Resolve(cfg.PAIR_SECONDARY_ROLE_IDS[i])]

\* `if sec and sec in member.roles`
sec_matches(m, i) == sec_roles[i] # 0 /\ sec_roles[i] \in roles[m]

\* matched_idx, without the break: the last matching secondary role wins
matched_idx_last(m) ==
    IF \E i \in 1..Len(sec_roles) : sec_matches(m, i)
    THEN CHOOSE i \in 1..Len(sec_roles) :
             sec_matches(m, i) /\ \A j \in (i + 1)..Len(sec_roles) : ~sec_matches(m, j)
    ELSE 0

\* the first matching secondary role: its list position, 0 when none matches
matched_idx(m) ==
    IF \E i \in 1..Len(sec_roles) : sec_matches(m, i)
    THEN CHOOSE i \in 1..Len(sec_roles) :
             sec_matches(m, i) /\ \A j \in 1..(i - 1) : ~sec_matches(m, j)
    ELSE 0

\* msg = PAIR_DM_MESSAGES[matched_idx] if matched_idx < len(PAIR_DM_MESSAGES) else ""
pair_msg(i) ==
    IF i <= Len(cfg.PAIR_DM_MESSAGES) THEN cfg.PAIR_DM_MESSAGES[i] ELSE <<>>

\* pair_skip, without the check that the member holds the primary role
pair_skip_noprimary(m, primary) ==
    \/ bot[m]
    \/ (cfg.TARGET_USER_ID # 0 /\ m # cfg.TARGET_USER_ID)
    \/ matched_idx(m) = 0

\* pair_skip, without the TARGET_USER_ID filter
pair_skip_notarget(m, primary) ==
    \/ bot[m]
    \/ primary \notin roles[m]
    \/ matched_idx(m) = 0

\* the three `continue`s before the match, and the one after it
pair_skip(m, primary) ==
    \/ bot[m]
    \/ (cfg.TARGET_USER_ID # 0 /\ m # cfg.TARGET_USER_ID)
    \/ primary \notin roles[m]
    \/ matched_idx(m) = 0

remove_failed(out) == out \in Failures

\* pair_member, counting a member only when its role was really removed
pair_member_realonly(m, primary, rr, outs) ==
    IF pair_skip(m, primary)
    THEN [counted |-> FALSE, log |-> log, roles |-> roles]
    ELSE LET msg == pair_msg(matched_idx(m))
         IN  IF cfg.DRY_RUN
             THEN [counted |-> FALSE,
                   log |-> send_multi_dm(m, msg, outs, log),
                   roles |-> roles]
             ELSE LET lg == Append(log, RoleCall("remove_roles", "process_role_pairs",
                                                 m, primary, rr))
                  IN  IF remove_failed(rr)
                      THEN [counted |-> FALSE, log |-> lg, roles |-> roles]
                      ELSE [counted |-> TRUE,
                            log |-> send_multi_dm(m, msg, outs, lg),
                            roles |-> [roles EXCEPT ![m] = @ \ {primary}]]

\* one iteration of the member loop of process_role_pairs:
\* [counted, log, roles] after it; rr is the outcome of member.remove_roles
pair_member(m, primary, rr, outs) ==
    IF pair_skip(m, primary)
    THEN [counted |-> FALSE, log |-> log, roles |-> roles]
    ELSE LET msg == pair_msg(matched_idx(m))
         IN  IF cfg.DRY_RUN
             THEN [counted |-> TRUE,
                   log |-> send_multi_dm(m, msg, outs, log),
                   roles |-> roles]
             ELSE LET lg == Append(log, RoleCall("remove_roles", "process_role_pairs",
                                                 m, primary, rr))
                  IN  IF remove_failed(rr)
                      THEN [counted |-> FALSE, log |-> lg, roles |-> roles]
                      ELSE [counted |-> TRUE,
                            log |-> send_multi_dm(m, msg, outs, lg),
                            roles |-> [roles EXCEPT ![m] = @ \ {primary}]]

\* the outcomes the sends of one iteration may have
SendOutcomes(m) ==
    IF matched_idx(m) = 0 THEN {<<>>}
    ELSE [1..Len(Lines(pair_msg(matched_idx(m)))) -> Outcomes]

\* ------------------------------------------------------------------------
\* Job orchestration: the steps of run_job
\* ------------------------------------------------------------------------
\* on_ready and __main__: run_job has returned, `finally` closes the client,
\* client.run returns and the script ends: exit status 0
process_exit == <<0>>

\* run_job without line 270: the role-pair scan is not run
RunJobResolve_nopairs ==
    /\ pc = "start"
    /\ IF Resolve(cfg.ROLE_ID) = 0
       THEN /\ pc' = "done"
            /\ errors' = Append(errors, "ROLE_ID not found in guild")
            /\ exit_code' = process_exit
       ELSE /\ pc' = "tenure"
            /\ UNCHANGED <<errors, exit_code>>
    /\ UNCHANGED <<cfg, now, faults, bot, created_at, joined_at, roles, idx, sec_roles,
                   affected, changed, log, pairSeen, pairSnap, pairCounted,
                   evaluated, tenureSnap, granted, roles0, runNo, prev>>

\* run_job with the role of the original feature resolved only when the
\* tenure phase needs it: the role-pair scan starts in any case
RunJobResolve_pairsfirst ==
    /\ pc = "start"
    /\ pc' = "pairs"
    /\ UNCHANGED <<cfg, now, faults, bot, created_at, joined_at, roles, idx, sec_roles,
                   affected, changed, log, pairSeen, pairSnap, pairCounted,
                   evaluated, tenureSnap, granted, roles0, runNo, prev, errors,
                   exit_code>>

\* run_job, lines 258-267: resolve the role of the original feature
RunJobResolve ==
    /\ pc = "start"
    /\ IF Resolve(cfg.ROLE_ID) = 0
       THEN /\ pc' = "done"
            /\ errors' = Append(errors, "ROLE_ID not found in guild")
            /\ exit_code' = process_exit
       ELSE /\ pc' = "pairs"
            /\ UNCHANGED <<errors, exit_code>>
    /\ UNCHANGED <<cfg, now, faults, bot, created_at, joined_at, roles, idx, sec_roles,
                   affected, changed, log, pairSeen, pairSnap, pairCounted,
                   evaluated, tenureSnap, granted, roles0, runNo, prev>>

\* process_role_pairs, with returns that end the job instead of the phase
RolePairsResolve_abort ==
    /\ pc = "pairs"
    /\ IF pairs_unconfigured \/ Resolve(cfg.PAIR_PRIMARY_ROLE_ID) = 0
       THEN pc' = "done" /\ UNCHANGED sec_roles
       ELSE pc' = "pairscan" /\ sec_roles' = resolve_secondary
    /\ idx' = 1
    /\ affected' = 0
    /\ UNCHANGED <<cfg, now, faults, bot, created_at, joined_at, roles, changed, log,
                   pairSeen, pairSnap, pairCounted, evaluated, tenureSnap,
                   granted, roles0, runNo, prev, errors, exit_code>>

\* process_role_pairs, lines 185-210: configuration and role resolution
RolePairsResolve ==
    /\ pc = "pairs"
    /\ IF pairs_unconfigured \/ Resolve(cfg.PAIR_PRIMARY_ROLE_ID) = 0
       THEN pc' = "tenure" /\ UNCHANGED sec_roles
       ELSE pc' = "pairscan" /\ sec_roles' = resolve_secondary
    /\ idx' = 1
    /\ affected' = 0
    /\ UNCHANGED <<cfg, now, faults, bot, created_at, joined_at, roles, changed, log,
                   pairSeen, pairSnap, pairCounted, evaluated, tenureSnap,
                   granted, roles0, runNo, prev, errors, exit_code>>

\* the member loop, with a failed call leaving the loop
pair_next_break(i, r) ==
    IF \E k \in (Len(log) + 1)..Len(r.log) : r.log[k].result # "ok"
    THEN NumMembers + 1
    ELSE i + 1

\* `async for member in guild.fetch_members(limit=None)`: after member i,
\* whatever pair_member did and whether it ended in `continue`, the next one
pair_next(i, r) == i + 1

\* process_role_pairs, lines 212-249: one member of guild.fetch_members
RolePairsMember ==
    /\ pc = "pairscan"
    /\ idx <= NumMembers
    /\ \E rr \in Outcomes : \E outs \in SendOutcomes(idx) :
         LET r == pair_member(idx, Resolve(cfg.PAIR_PRIMARY_ROLE_ID), rr, outs)
         IN  /\ log' = r.log
             /\ roles' = r.roles
             /\ affected' = IF r.counted THEN affected + 1 ELSE affected
             /\ pairCounted' = IF r.counted THEN pairCounted \cup {idx}
                               ELSE pairCounted
             /\ idx' = pair_next(idx, r)
    /\ pairSeen' = pairSeen \cup {idx}
    /\ pairSnap' = [pairSnap EXCEPT ![idx] = roles[idx]]
    /\ UNCHANGED <<cfg, now, faults, bot, created_at, joined_at, pc, sec_roles, changed,
                   evaluated, tenureSnap, granted, roles0, runNo, prev, errors, exit_code>>

\* process_role_pairs, line 251: the member iteration is exhausted
RolePairsDone ==
    /\ pc = "pairscan"
    /\ idx > NumMembers
    /\ pc' = "tenure"
    /\ idx' = 1
    /\ UNCHANGED <<cfg, now, faults, bot, created_at, joined_at, roles, sec_roles,
                   affected, changed, log, pairSeen, pairSnap, pairCounted,
                   evaluated, tenureSnap, granted, roles0, runNo, prev, errors, exit_code>>

\* run_job line 275 and process_single_user: targeted mode
ProcessSingleUser ==
    /\ pc = "tenure"
    /\ cfg.TARGET_USER_ID # 0
    /\ IF cfg.TARGET_USER_ID \notin Members
       THEN /\ errors' = Append(errors, "TARGET_USER_ID not found in guild")
            /\ UNCHANGED <<roles, log, evaluated, tenureSnap, granted>>
       ELSE \E gr \in Outcomes : \E dr \in Outcomes :
              LET m == cfg.TARGET_USER_ID
                  r == add_role_if_needed(m, Resolve(cfg.ROLE_ID), gr, dr)
              IN  /\ log' = r.log
                  /\ roles' = r.roles
                  /\ evaluated' = evaluated \cup {m}
                  /\ tenureSnap' = [tenureSnap EXCEPT ![m] = roles[m]]
                  /\ granted' = IF r.ret THEN granted \cup {m} ELSE granted
                  /\ UNCHANGED errors
    /\ pc' = "done"
    /\ exit_code' = process_exit
    /\ UNCHANGED <<cfg, now, faults, bot, created_at, joined_at, idx, sec_roles,
                   affected, changed, pairSeen, pairSnap, pairCounted, roles0,
                   runNo, prev>>

\* run_job line 278 and process_full_scan: one member of guild.fetch_members
FullScanMember ==
    /\ pc = "tenure"
    /\ cfg.TARGET_USER_ID = 0
    /\ idx <= NumMembers
    /\ \E gr \in Outcomes : \E dr \in Outcomes :
         LET r == add_role_if_needed(idx, Resolve(cfg.ROLE_ID), gr, dr)
         IN  /\ log' = r.log
             /\ roles' = r.roles
             /\ changed' = changed + (IF r.ret THEN 1 ELSE 0)
             /\ granted' = IF r.ret THEN granted \cup {idx} ELSE granted
    /\ evaluated' = evaluated \cup {idx}
    /\ tenureSnap' = [tenureSnap EXCEPT ![idx] = roles[idx]]
    /\ idx' = idx + 1
    /\ UNCHANGED <<cfg, now, faults, bot, created_at, joined_at, pc, sec_roles, affected,
                   pairSeen, pairSnap, pairCounted, roles0, runNo, prev, errors, exit_code>>

\* process_full_scan, line 174: the member iteration is exhausted
FullScanDone ==
    /\ pc = "tenure"
    /\ cfg.TARGET_USER_ID = 0
    /\ idx > NumMembers
    /\ pc' = "done"
    /\ exit_code' = process_exit
    /\ UNCHANGED <<cfg, now, faults, bot, created_at, joined_at, roles, idx, sec_roles,
                   affected, changed, log, pairSeen, pairSnap, pairCounted,
                   evaluated, tenureSnap, granted, roles0, runNo, prev, errors>>

\* what a finished run leaves behind: its flags, its two statistics, the
\* directory, and which kinds of platform call failed in it
FailedOps == { log[i].op : i \in { j \in 1..Len(log) : log[j].result # "ok" } }

RunSummary ==
    [dry |-> cfg.DRY_RUN, now |-> now, affected |-> affected, changed |-> changed,
     roles0 |-> roles0, roles |-> roles, failed |-> FailedOps]

\* The job is started again at once, on the same guild: a new process with
\* the same configuration, except that a dry run may be followed by a real one.
Rerun ==
    /\ pc = "done"
    /\ runNo < MaxRuns
    /\ runNo' = runNo + 1
    /\ prev' = <<RunSummary>>
    /\ roles0' = roles
    /\ \E d \in {cfg.DRY_RUN, FALSE} : cfg' = [cfg EXCEPT !.DRY_RUN = d]
    /\ now' = now
    /\ pc' = "start"
    /\ idx' = 1
    /\ sec_roles' = <<>>
    /\ affected' = 0
    /\ changed' = 0
    /\ log' = <<>>
    /\ pairSeen' = {}
    /\ pairSnap' = [m \in Members |-> {}]
    /\ pairCounted' = {}
    /\ evaluated' = {}
    /\ tenureSnap' = [m \in Members |-> {}]
    /\ granted' = {}
    /\ errors' = <<>>
    /\ exit_code' = <<>>
    /\ UNCHANGED <<faults, bot, created_at, joined_at, roles>>

Next ==
    \/ RunJobResolve
    \/ RolePairsResolve
    \/ RolePairsMember
    \/ RolePairsDone
    \/ ProcessSingleUser
    \/ FullScanMember
    \/ FullScanDone

NextTwice == Next \/ Rerun

\* ------------------------------------------------------------------------
\* Initial states: configuration and guild
\* ------------------------------------------------------------------------
TenureText == <<"h", "i">>
PairTexts == <<(<<"a", " ", "\n", " ", "\n", "b">>), (<<"c">>), (<<>>)>>
NoPairTexts == <<(<<>>), (<<>>), (<<>>)>>

\* (PAIR_PRIMARY_ROLE_ID, PAIR_SECONDARY_ROLE_IDS)
PairSetups ==
    {<<0, <<3>>>>, <<4, <<3>>>>, <<2, <<>>>>, <<2, <<3>>>>, <<2, <<3, 1>>>>,
     <<2, <<4, 3>>>>, <<1, <<3>>>>}

Config(role, thr, dm, force, excl, dry, target, pair, texts) ==
    [ROLE_ID |-> role, THRESHOLD_DAYS |-> thr, DM_MESSAGE |-> dm,
     FORCE_ASSIGN |-> force, EXCLUDE_ROLE_IDS |-> excl, DRY_RUN |-> dry,
     TARGET_USER_ID |-> target, PAIR_PRIMARY_ROLE_ID |-> pair[1],
     PAIR_SECONDARY_ROLE_IDS |-> pair[2], PAIR_DM_MESSAGES |-> texts]

Profile(b, rs, c, j) == [bot |-> b, roles |-> rs, created_at |-> c, joined_at |-> j]

\* a run about to start on day t, for a configuration, a guild and a platform
\* of the given sets
InitWith(configs, guilds, platforms, t) ==
    /\ cfg \in configs
    /\ now = t
    /\ faults \in platforms
    /\ \E f \in guilds :
         /\ bot = [m \in Members |-> f[m].bot]
         /\ created_at = [m \in Members |-> f[m].created_at]
         /\ joined_at = [m \in Members |-> f[m].joined_at]
         /\ roles = [m \in Members |-> f[m].roles]
    /\ pc = "start"
    /\ idx = 1
    /\ sec_roles = <<>>
    /\ affected = 0
    /\ changed = 0
    /\ log = <<>>
    /\ pairSeen = {}
    /\ pairSnap = [m \in Members |-> {}]
    /\ pairCounted = {}
    /\ evaluated = {}
    /\ tenureSnap = [m \in Members |-> {}]
    /\ granted = {}
    /\ roles0 = roles
    /\ runNo = 1
    /\ prev = <<>>
    /\ errors = <<>>
    /\ exit_code = <<>>

\* One run over a guild of bots and people with any roles.
Configs ==
    { Config(1, 2, TenureText, FALSE, excl, dry, target, pair, PairTexts) :
        excl \in {{}, {2}}, dry \in BOOLEAN, target \in {0, 1}, pair \in PairSetups }
    \cup
    { Config(4, 2, TenureText, FALSE, {}, dry, target, <<2, <<3>>>>, PairTexts) :
        dry \in BOOLEAN, target \in {0, 1} }
    \cup
    { Config(1, 2, TenureText, FALSE, {}, dry, NumMembers + 1, <<2, <<3>>>>, PairTexts) :
        dry \in BOOLEAN }

Profiles ==
    { Profile(TRUE, {2, 3}, 0, <<0>>), Profile(FALSE, {}, 2, <<2>>) }
    \cup
    { Profile(FALSE, rs, 0, <<0>>) : rs \in {{}, {2, 3}, {1, 2}, {1, 2, 3}} }

\* the members after the second are people of long standing, with or without
\* the roles of the pair rule
CrowdProfiles == { Profile(FALSE, rs, 0, <<0>>) : rs \in {{}, {2, 3}} }

Guilds == { f \in [Members -> Profiles] : \A m \in Members : m > 2 => f[m] \in CrowdProfiles }

\* In one run the platform fails, when it does, in one of the two ways.
Init == InitWith(Configs, Guilds, {{"Forbidden"}, {"HTTPException"}}, 3)

Spec == Init /\ [][Next]_vars

\* The threshold rule on one member: member 1 and the configuration of the
\* original feature take every value, the rest of the guild is fixed.
RuleConfigs ==
    { Config(1, thr, dm, force, excl, dry, target, <<0, <<3>>>>, PairTexts) :
        thr \in {-1, 2}, dm \in {<<>>, TenureText}, force \in BOOLEAN,
        excl \in {{}, {2}, {2, 3}}, dry \in BOOLEAN, target \in {0, 1} }
    \cup
    { Config(1, 2, TenureText, FALSE, {}, dry, 0, <<2, <<3>>>>, PairTexts) :
        dry \in BOOLEAN }

RuleProfiles ==
    { Profile(b, rs, t[1], t[2]) :
        b \in BOOLEAN, rs \in SUBSET GuildRoles,
        t \in {<<0, <<0>>>>, <<0, <<2>>>>, <<1, <<1>>>>, <<2, <<2>>>>,
               <<3, <<3>>>>} }

RuleGuilds ==
    { [m \in Members |-> IF m = 1 THEN p ELSE Profile(FALSE, {1, 2, 3}, 0, <<0>>)] :
        p \in RuleProfiles }

InitRule == InitWith(RuleConfigs, RuleGuilds, {Failures}, 3)

SpecRule == InitRule /\ [][Next]_vars

\* The job run again and again on the same guild.
TwiceConfigs ==
    { Config(1, 2, TenureText, FALSE, excl, dry, 0, pair, NoPairTexts) :
        excl \in {{}, {2}}, dry \in BOOLEAN,
        pair \in {<<0, <<3>>>>, <<2, <<3>>>>, <<1, <<3>>>>} }
    \cup
    { Config(1, 2, TenureText, FALSE, {}, dry, 1, <<2, <<3>>>>, NoPairTexts) :
        dry \in BOOLEAN }

TwiceProfiles ==
    { Profile(FALSE, {}, 0, <<0>>), Profile(FALSE, {2, 3}, 0, <<0>>),
      Profile(FALSE, {1, 3}, 0, <<0>>) }

InitTwice ==
    InitWith(TwiceConfigs, [Members -> TwiceProfiles], {{}, {"Forbidden"}}, 3)

SpecTwice == InitTwice /\ [][NextTwice]_vars

\* One run whose every awaited call returns: the event loop resumes run_job
\* after each of them, so a step that can be taken is taken.
LiveConfigs ==
    { Config(1, 2, TenureText, FALSE, {}, FALSE, target, pair, PairTexts) :
        target \in {0, 1}, pair \in {<<2, <<3>>>>, <<4, <<3>>>>} }
    \cup
    { Config(4, 2, TenureText, FALSE, {}, FALSE, 0, <<2, <<3>>>>, PairTexts) }

LiveProfiles == { Profile(FALSE, {}, 0, <<0>>), Profile(FALSE, {2, 3}, 0, <<0>>) }

InitLive == InitWith(LiveConfigs, [Members -> LiveProfiles], {Failures}, 3)

SpecLive == InitLive /\ [][Next]_vars /\ WF_vars(Next)

\* ------------------------------------------------------------------------
\* Properties
\* ------------------------------------------------------------------------
CallsOf(op, from, m) ==
    { i \in 1..Len(log) : log[i].op = op /\ log[i].from = from /\ log[i].member = m }

GrantCalls(m) == CallsOf("add_roles", "add_role_if_needed", m)
RemoveCalls(m) == CallsOf("remove_roles", "process_role_pairs", m)
TenureDMs(m) == CallsOf("send", "send_single_dm", m)
PairDMs(m) == CallsOf("send", "send_multi_dm", m)

\* bot, already holding the grant role, or holding an exclusion role, in the
\* snapshot add_role_if_needed read
Disqualified(m) ==
    \/ bot[m]
    \/ cfg.ROLE_ID \in tenureSnap[m]
    \/ tenureSnap[m] \cap cfg.EXCLUDE_ROLE_IDS # {}

\* the tenure decision for m was positive: the grant was attempted, or under
\* dry-run reported as one that would be made
Decided(m) == IF cfg.DRY_RUN THEN m \in granted ELSE GrantCalls(m) # {}

\* C1: a member that is a bot, already holds the grant role or holds an
\* exclusion role gets no grantRole call, no tenure DM and the result false,
\* whatever its age and whatever the force-flag.
C1_DisqualifiedNeverGranted ==
    \A m \in evaluated :
        Disqualified(m) =>
            /\ GrantCalls(m) = {}
            /\ TenureDMs(m) = {}
            /\ m \notin granted

\* an old member holding only an exclusion role was evaluated with the
\* force-flag set
C1_Witness ==
    \E m \in evaluated :
        /\ cfg.FORCE_ASSIGN
        /\ ~bot[m]
        /\ cfg.ROLE_ID \notin tenureSnap[m]
        /\ tenureSnap[m] \cap cfg.EXCLUDE_ROLE_IDS # {}
        /\ now - created_at[m] >= 2

\* C2: with the force-flag unset, a member that is not disqualified is
\* granted the role iff its join timestamp is present and now minus the join
\* timestamp is at least max(0, threshold) days.
C2_GrantIffJoinedLongEnough ==
    \A m \in evaluated :
        (~cfg.FORCE_ASSIGN /\ ~Disqualified(m)) =>
            (Decided(m) <=>
                /\ joined_at[m] # <<>>
                /\ now - joined_at[m][1] >= Max(0, cfg.THRESHOLD_DAYS))

\* C3: with the force-flag set, every member that is not a bot, does not hold
\* the grant role and holds no exclusion role qualifies, whatever its age and
\* the threshold.
C3_ForceQualifies ==
    \A m \in evaluated :
        (cfg.FORCE_ASSIGN /\ ~Disqualified(m)) => Decided(m)

\* a member whose account is younger than the threshold qualified under the
\* force-flag
C3_Witness ==
    \E m \in evaluated :
        /\ cfg.FORCE_ASSIGN
        /\ ~Disqualified(m)
        /\ now - created_at[m] < cfg.THRESHOLD_DAYS
        /\ Decided(m)

\* the secondary roles of the configuration that resolve and that m held
\* when the role-pair loop read it, by list position
HeldSecondary(m) ==
    { k \in 1..Len(cfg.PAIR_SECONDARY_ROLE_IDS) :
        /\ cfg.PAIR_SECONDARY_ROLE_IDS[k] \in GuildRoles
        /\ cfg.PAIR_SECONDARY_ROLE_IDS[k] \in pairSnap[m] }

\* C4: removeRole is called for a member only if, in the snapshot read for it,
\* the member is not a bot, holds the primary-pair role and holds a configured,
\* resolved secondary role; the role removed is the primary-pair role.
C4_RemoveOnlyHeldPair ==
    \A i \in 1..Len(log) :
        log[i].op = "remove_roles" =>
            LET m == log[i].member
            IN  /\ m \in pairSeen
                /\ ~bot[m]
                /\ log[i].role = cfg.PAIR_PRIMARY_ROLE_ID
                /\ log[i].role \in pairSnap[m]
                /\ HeldSecondary(m) # {}

\* a removeRole call was issued in a guild that also has a member holding a
\* secondary role without the primary role
C4_Witness ==
    /\ \E i \in 1..Len(log) : log[i].op = "remove_roles"
    /\ \E m \in pairSeen :
        /\ ~bot[m]
        /\ cfg.PAIR_PRIMARY_ROLE_ID \notin pairSnap[m]
        /\ HeldSecondary(m) # {}

\* the texts sent to m by send_multi_dm, in order
PairTextsSent(m) ==
    LET sent == SelectSeq(log, LAMBDA c : c.op = "send" /\ c.from = "send_multi_dm"
                                          /\ c.member = m)
    IN  [i \in 1..Len(sent) |-> sent[i].text]

IsPrefix(a, b) == Len(a) <= Len(b) /\ a = SubSeq(b, 1, Len(a))

FirstHeld(m) == CHOOSE k \in HeldSecondary(m) : \A j \in HeldSecondary(m) : k <= j

\* C5: the DMs of the pair rule come from the template of the held secondary
\* role that is first in the configured list: positions 1 and 2 held selects
\* template 1, only position 2 held selects template 2.
C5_FirstMatchTemplate ==
    \A m \in pairCounted :
        ~cfg.DRY_RUN =>
            LET segs == Lines(cfg.PAIR_DM_MESSAGES[FirstHeld(m)])
            IN  /\ IsPrefix(PairTextsSent(m), segs)
                /\ (segs # <<>> => PairTextsSent(m) # <<>>)

\* one member holding the secondary roles 1 and 2 got the first line of
\* template 1, another holding only secondary role 2 got template 2
C5_Witness ==
    \E m1, m2 \in pairCounted :
        /\ HeldSecondary(m1) = {1, 2}
        /\ PairTextsSent(m1) # <<>>
        /\ PairTextsSent(m1)[1] = <<"a">>
        /\ HeldSecondary(m2) = {2}
        /\ PairTextsSent(m2) = << <<"c">> >>

\* C6: under dry-run no grantRole, removeRole or directMessage call is ever
\* issued and every member's roles stay as they were when the run started.
C6_DryRunNoEffect ==
    cfg.DRY_RUN => (log = <<>> /\ roles = roles0)

\* a finished dry run that reported a removal and a grant
C6_Witness ==
    /\ cfg.DRY_RUN
    /\ pc = "done"
    /\ pairCounted # {}
    /\ granted # {}
    /\ cfg.DM_MESSAGE # <<>>

\* the run just finished is a real run without a failed call, and the run
\* before it was a dry run on the same directory snapshot
DryThenReal ==
    /\ pc = "done"
    /\ prev # <<>>
    /\ prev[1].dry
    /\ ~cfg.DRY_RUN
    /\ prev[1].roles0 = roles0
    /\ prev[1].now = now
    /\ FailedOps = {}

\* C7: a complete dry run reports the same pair-phase affected count and the
\* same tenure-phase updated count as a real run from the same snapshot in
\* which no call fails.
C7_DryRunParity ==
    DryThenReal =>
        (affected = prev[1].affected /\ changed = prev[1].changed)

\* the primary-pair role is the grant role or one of the exclusion roles
PrimaryDecidesTenure ==
    cfg.PAIR_PRIMARY_ROLE_ID \in ({cfg.ROLE_ID} \cup cfg.EXCLUDE_ROLE_IDS)

\* C7 amended: the affected counts always agree, and the updated counts agree
\* when the primary-pair role is neither the grant role nor an exclusion role.
C7_DryRunParityAmended ==
    DryThenReal =>
        /\ affected = prev[1].affected
        /\ (~PrimaryDecidesTenure => changed = prev[1].changed)

\* a dry run and a real run that both reported one removal and two grants
C7_Witness ==
    /\ DryThenReal
    /\ ~PrimaryDecidesTenure
    /\ affected >= 1
    /\ changed >= 2
    /\ prev[1].affected = affected

\* the run before this one was a real run whose grant calls all succeeded,
\* this run has the same configuration, and its role-pair phase removed no role
SecondTenurePhase ==
    /\ prev # <<>>
    /\ ~prev[1].dry
    /\ ~cfg.DRY_RUN
    /\ prev[1].now = now
    /\ "add_roles" \notin prev[1].failed
    /\ \A i \in 1..Len(log) :
         ~(log[i].op = "remove_roles" /\ log[i].result = "ok")

\* C8: the tenure phase run a second time, on the directory the first run's
\* grants left, issues no grantRole call, sends no DM and reports zero
\* updated members.
C8_TenureIdempotent ==
    SecondTenurePhase =>
        /\ \A m \in Members : GrantCalls(m) = {} /\ TenureDMs(m) = {}
        /\ granted = {}
        /\ changed = 0

\* a second run is finished, it evaluated every member, and the first run had
\* granted the role to two members
C8_Witness ==
    /\ SecondTenurePhase
    /\ pc = "done"
    /\ evaluated = Members
    /\ prev[1].changed >= 2
    /\ cfg.DM_MESSAGE # <<>>

\* C9: in one run every member gets at most one grantRole call and at most one
\* removeRole call, whatever the calls' outcomes, and is counted at most once
\* in each statistic.
C9_AtMostOnce ==
    /\ \A m \in Members :
         /\ Cardinality(GrantCalls(m)) <= 1
         /\ Cardinality(RemoveCalls(m)) <= 1
    /\ affected = Cardinality(pairCounted)
    /\ (cfg.TARGET_USER_ID = 0 => changed = Cardinality(granted))

Failed(i) == log[i].result # "ok"

\* a finished run in which a removeRole call and a grantRole call failed, and
\* another member was removed from and granted
C9_Witness ==
    /\ pc = "done"
    /\ \E i, j \in 1..Len(log) :
         /\ log[i].op = "remove_roles" /\ Failed(i)
         /\ log[j].op = "add_roles" /\ Failed(j)
    /\ affected >= 1
    /\ changed >= 1

\* C10: a member whose grantRole (removeRole) call failed gets no DM of that
\* phase and is not counted in it, and the scan goes on: the role-pair loop
\* and the full scan end only after every member was visited.
C10_FailedMutationNotApplied ==
    /\ \A i \in 1..Len(log) :
         /\ (log[i].op = "add_roles" /\ Failed(i)) =>
               /\ TenureDMs(log[i].member) = {}
               /\ log[i].member \notin granted
         /\ (log[i].op = "remove_roles" /\ Failed(i)) =>
               /\ PairDMs(log[i].member) = {}
               /\ log[i].member \notin pairCounted
    /\ affected = Cardinality(pairCounted)
    /\ (cfg.TARGET_USER_ID = 0 => changed = Cardinality(granted))
    /\ (pc \in {"tenure", "done"} /\ "remove_roles" \in FailedOps)
          => pairSeen = Members
    /\ (pc = "done" /\ cfg.TARGET_USER_ID = 0 /\ "add_roles" \in FailedOps)
          => evaluated = Members

\* a removeRole call failed, the grantRole call of one member failed with
\* Forbidden, and the scan went on to grant the role to a later member and to
\* send it the DM
C10_Witness ==
    /\ pc = "done"
    /\ \E i, j \in 1..Len(log) :
         /\ i < j
         /\ log[i].op = "add_roles" /\ log[i].result = "Forbidden"
         /\ log[j].op = "add_roles" /\ log[j].result = "ok"
         /\ log[j].member # log[i].member
         /\ TenureDMs(log[j].member) # {}
    /\ \E i \in 1..Len(log) : log[i].op = "remove_roles" /\ Failed(i)

\* the tenure rule on the snapshot add_role_if_needed read for m
TenureQualifies(m) ==
    /\ ~Disqualified(m)
    /\ (cfg.FORCE_ASSIGN \/ now - created_at[m] >= Max(0, cfg.THRESHOLD_DAYS))

\* the pair rule on the snapshot the role-pair loop read for m
PairQualifies(m) ==
    /\ ~bot[m]
    /\ (cfg.TARGET_USER_ID = 0 \/ m = cfg.TARGET_USER_ID)
    /\ cfg.PAIR_PRIMARY_ROLE_ID \in pairSnap[m]
    /\ HeldSecondary(m) # {}

\* C11: a failed directMessage never changes the mutation outcome: the member
\* keeps the granted (removed) role, the mutation counts in the phase's
\* statistic, and every member is still evaluated and mutated by its own
\* snapshot alone.
C11_DMFailureIsolated ==
    /\ \A i \in 1..Len(log) :
         (log[i].op = "send" /\ Failed(i)) =>
            LET m == log[i].member
            IN  IF log[i].from = "send_single_dm"
                THEN /\ m \in granted
                     /\ cfg.ROLE_ID \in roles[m]
                     /\ \E j \in 1..(i - 1) :
                          /\ log[j].op = "add_roles" /\ log[j].member = m
                          /\ log[j].result = "ok"
                ELSE /\ m \in pairCounted
                     /\ \E j \in 1..(i - 1) :
                          /\ log[j].op = "remove_roles" /\ log[j].member = m
                          /\ log[j].result = "ok"
    /\ affected = Cardinality(pairCounted)
    /\ (cfg.TARGET_USER_ID = 0 => changed = Cardinality(granted))
    /\ \A m \in evaluated : Decided(m) <=> TenureQualifies(m)
    /\ \A m \in pairSeen :
         (IF cfg.DRY_RUN THEN m \in pairCounted ELSE RemoveCalls(m) # {})
            <=> PairQualifies(m)
    /\ (pc = "done" /\ cfg.TARGET_USER_ID = 0 /\ "send" \in FailedOps)
          => evaluated = Members

\* the DMs of the first member failed in both phases, and the run went on to
\* remove from, grant to and notify a later member
C11_Witness ==
    /\ pc = "done"
    /\ \E i, j \in 1..Len(log) :
         /\ log[i].op = "send" /\ log[i].from = "send_multi_dm" /\ Failed(i)
         /\ log[j].op = "send" /\ log[j].from = "send_single_dm" /\ Failed(j)
         /\ log[i].member = 1 /\ log[j].member = 1
    /\ \E m \in Members \ {1} :
         /\ m \in pairCounted /\ m \in granted
         /\ \E i \in TenureDMs(m) : ~Failed(i)
         /\ \E i \in PairDMs(m) : ~Failed(i)

\* the calls of member.send that send_multi_dm made for m, in order
PairSends(m) ==
    SelectSeq(log, LAMBDA c : c.op = "send" /\ c.from = "send_multi_dm" /\ c.member = m)

\* a segment: not empty, no whitespace at either end, no line break inside
IsSegment(s) ==
    /\ s # <<>>
    /\ s[1] \notin Whitespace
    /\ s[Len(s)] \notin Whitespace
    /\ \A i \in 1..Len(s) : s[i] # "\n"

\* C12: send_multi_dm sends the non-empty trimmed lines of the template in
\* their order, one call per segment; what is attempted for a member is a
\* prefix of the segments, it ends at the first failed send, and a failed
\* segment is not sent again.
C12_SegmentsPrefix ==
    /\ pc = "start" =>
         \A k \in 1..Len(cfg.PAIR_DM_MESSAGES) :
            LET segs == Lines(cfg.PAIR_DM_MESSAGES[k])
            IN  /\ \A j \in 1..Len(segs) : IsSegment(segs[j])
                /\ cfg.PAIR_DM_MESSAGES[k] = <<"a", " ", "\n", " ", "\n", "b">>
                      => segs = << <<"a">>, <<"b">> >>
    /\ \A m \in Members :
         LET sends == PairSends(m)
         IN  /\ \A i \in 1..(Len(sends) - 1) : sends[i].result = "ok"
             /\ (m \in pairCounted /\ ~cfg.DRY_RUN) =>
                   LET segs == Lines(cfg.PAIR_DM_MESSAGES[FirstHeld(m)])
                   IN  /\ IsPrefix([i \in 1..Len(sends) |-> sends[i].text], segs)
                       /\ (Len(sends) < Len(segs) =>
                             (sends # <<>> /\ sends[Len(sends)].result # "ok"))
             /\ (m \notin pairCounted \/ cfg.DRY_RUN) => sends = <<>>

\* the first segment of a template of two segments failed for one member, and
\* another member was sent both segments
C12_Witness ==
    \E m1, m2 \in pairCounted :
        /\ Len(PairSends(m1)) = 1
        /\ PairSends(m1)[1].text = <<"a">>
        /\ PairSends(m1)[1].result # "ok"
        /\ Len(PairSends(m2)) = 2
        /\ PairSends(m2)[2].text = <<"b">>

\* C13: in targeted mode only the target gets a grantRole call, a removeRole
\* call or a DM, in either phase, and it is evaluated at most once per phase;
\* a target that is not in the guild gets no grant and the run still ends
\* normally.
C13_TargetedOnlyTarget ==
    cfg.TARGET_USER_ID # 0 =>
        /\ \A i \in 1..Len(log) : log[i].member = cfg.TARGET_USER_ID
        /\ evaluated \subseteq {cfg.TARGET_USER_ID}
        /\ granted \subseteq {cfg.TARGET_USER_ID}
        /\ pairCounted \subseteq {cfg.TARGET_USER_ID}
        /\ \A m \in Members :
             /\ roles[m] # roles0[m] => m = cfg.TARGET_USER_ID
             /\ Cardinality(GrantCalls(m)) <= 1
             /\ Cardinality(RemoveCalls(m)) <= 1
             /\ Cardinality(TenureDMs(m)) <= 1
        /\ affected <= 1
        /\ cfg.TARGET_USER_ID \notin Members =>
             /\ log = <<>>
             /\ evaluated = {}
             /\ granted = {}
             /\ pc = "done" => exit_code = <<0>>

\* a finished targeted run that removed from and granted to the target, in a
\* guild where another member holds the primary and a secondary role
C13_Witness ==
    /\ pc = "done"
    /\ cfg.TARGET_USER_ID \in Members
    /\ RemoveCalls(cfg.TARGET_USER_ID) # {}
    /\ GrantCalls(cfg.TARGET_USER_ID) # {}
    /\ \E m \in Members \ {cfg.TARGET_USER_ID} :
         /\ ~bot[m]
         /\ cfg.PAIR_PRIMARY_ROLE_ID \in roles[m]
         /\ HeldSecondary(m) # {}
         /\ cfg.ROLE_ID \notin roles[m]

\* C14: when the grant role cannot be resolved the run ends with an error
\* outcome, a non-zero result that differs from the result of a normal
\* completion, and no grantRole call is made for any member.
C14_UnresolvedGrantRoleFails ==
    (pc = "done" /\ Resolve(cfg.ROLE_ID) = 0) =>
        /\ exit_code # <<>>
        /\ exit_code[1] # 0
        /\ \A m \in Members : GrantCalls(m) = {}

\* the primary-pair role is unset or unknown to the guild, or no secondary role
\* is configured
PairInert ==
    \/ cfg.PAIR_PRIMARY_ROLE_ID = 0
    \/ cfg.PAIR_PRIMARY_ROLE_ID \notin GuildRoles
    \/ cfg.PAIR_SECONDARY_ROLE_IDS = <<>>

\* the members the tenure phase is to evaluate
TenurePopulation ==
    IF cfg.TARGET_USER_ID = 0 THEN Members ELSE {cfg.TARGET_USER_ID} \cap Members

\* C15: with the primary-pair role unset or unresolvable, or with no secondary
\* role configured, the pair rule does nothing in the run: no removeRole call,
\* no pair DM, no member counted; and the tenure phase then runs over the
\* members (or the target) on their unchanged roles, deciding by the tenure
\* rule alone.
C15_PairRuleInert ==
    PairInert =>
        /\ \A m \in Members : RemoveCalls(m) = {} /\ PairDMs(m) = {}
        /\ pairSeen = {} /\ pairCounted = {} /\ affected = 0
        /\ (pc = "done" /\ cfg.ROLE_ID \in GuildRoles) =>
             /\ evaluated = TenurePopulation
             /\ \A m \in evaluated :
                  /\ tenureSnap[m] = roles0[m]
                  /\ Decided(m) <=> TenureQualifies(m)

\* a finished full scan with an unresolvable primary-pair role that granted to
\* a member holding the configured secondary role
C15_Witness ==
    /\ pc = "done"
    /\ cfg.TARGET_USER_ID = 0
    /\ cfg.PAIR_PRIMARY_ROLE_ID # 0
    /\ cfg.PAIR_PRIMARY_ROLE_ID \notin GuildRoles
    /\ evaluated = Members
    /\ \E m \in Members :
         /\ \E k \in 1..Len(cfg.PAIR_SECONDARY_ROLE_IDS) :
              cfg.PAIR_SECONDARY_ROLE_IDS[k] \in roles0[m]
         /\ m \in granted
         /\ cfg.ROLE_ID \in roles[m]

PairPhaseCalls ==
    { i \in 1..Len(log) : log[i].from \in {"process_role_pairs", "send_multi_dm"} }

TenurePhaseCalls ==
    { i \in 1..Len(log) : log[i].from \in {"add_role_if_needed", "send_single_dm"} }

\* the pair rule on the roles m had when the run started
PairQualifiesAtStart(m) ==
    /\ ~PairInert
    /\ ~bot[m]
    /\ (cfg.TARGET_USER_ID = 0 \/ m = cfg.TARGET_USER_ID)
    /\ cfg.PAIR_PRIMARY_ROLE_ID \in roles0[m]
    /\ \E k \in 1..Len(cfg.PAIR_SECONDARY_ROLE_IDS) :
         /\ cfg.PAIR_SECONDARY_ROLE_IDS[k] \in GuildRoles
         /\ cfg.PAIR_SECONDARY_ROLE_IDS[k] \in roles0[m]

\* C16: every removeRole call and pair DM precedes every grantRole call and
\* tenure DM of the run; a member that qualifies under the pair rule and passes
\* the tenure rule has the primary role removal attempted first and the grant
\* attempted after it, and when both calls succeed it ends without the primary
\* role and with the grant role.
C16_PairPhaseThenTenurePhase ==
    /\ \A i \in PairPhaseCalls : \A j \in TenurePhaseCalls : i < j
    /\ \A m \in evaluated :
         (PairQualifiesAtStart(m) /\ TenureQualifies(m)) =>
            IF cfg.DRY_RUN
            THEN m \in pairCounted /\ m \in granted
            ELSE /\ RemoveCalls(m) # {}
                 /\ GrantCalls(m) # {}
                 /\ \A i \in RemoveCalls(m) : \A j \in GrantCalls(m) : i < j
                 /\ (\A i \in RemoveCalls(m) \cup GrantCalls(m) : ~Failed(i)) =>
                       roles[m] = (roles0[m] \ {cfg.PAIR_PRIMARY_ROLE_ID})
                                     \cup {cfg.ROLE_ID}

\* a finished run in which a member lost the primary role, got its pair DMs,
\* and after them was granted the grant role and got the tenure DM
C16_Witness ==
    /\ pc = "done"
    /\ \E m \in Members :
         /\ PairQualifiesAtStart(m)
         /\ \E i \in RemoveCalls(m) : ~Failed(i)
         /\ \E i \in GrantCalls(m) : ~Failed(i)
         /\ PairDMs(m) # {}
         /\ TenureDMs(m) # {}
         /\ cfg.PAIR_PRIMARY_ROLE_ID \notin roles[m]
         /\ cfg.ROLE_ID \in roles[m]

\* C17: a DM of a phase is sent to a member only after that phase's role call
\* for the member has succeeded: every tenure DM follows a successful add_roles
\* for its member and every pair DM a successful remove_roles, no role call of
\* a phase follows a DM of that phase to the same member, the grant is followed
\* by at most one DM and the removal by at most the segments of its template.
C17_DMAfterMutation ==
    \A m \in Members :
        /\ \A i \in TenureDMs(m) : \E j \in GrantCalls(m) : j < i /\ ~Failed(j)
        /\ \A i \in PairDMs(m) : \E j \in RemoveCalls(m) : j < i /\ ~Failed(j)
        /\ \A i \in TenureDMs(m) : \A j \in GrantCalls(m) : j < i
        /\ \A i \in PairDMs(m) : \A j \in RemoveCalls(m) : j < i
        /\ Cardinality(TenureDMs(m)) <= 1
        /\ PairDMs(m) # {} =>
             /\ HeldSecondary(m) # {}
             /\ Cardinality(PairDMs(m)) <= Len(Lines(pair_msg(FirstHeld(m))))

\* a finished run in which a member got two pair DMs after its removal and one
\* tenure DM after its grant, and another call of the run failed
C17_Witness ==
    /\ pc = "done"
    /\ \E m \in Members :
         /\ Cardinality(PairDMs(m)) = 2
         /\ Cardinality(TenureDMs(m)) = 1
    /\ \E i \in 1..Len(log) : Failed(i)

\* each phase has gone through its members: the role-pair loop through the
\* whole guild, the tenure phase through the guild or the target
VisitedAll ==
    /\ ~PairInert => pairSeen = Members
    /\ evaluated = TenurePopulation

\* C18: when every call returns, a run ends, and when the grant role resolves
\* it ends only after both phases have gone through all their members,
\* whichever grantRole, removeRole and DM calls failed on the way.
C18_RunEndsAfterVisitingAll ==
    (pc = "start") ~> (pc = "done" /\ (cfg.ROLE_ID \in GuildRoles => VisitedAll))

\* a finished full scan with a working pair rule in which the removal for the
\* first member and a later call failed, and all members were visited
C18_Witness ==
    /\ pc = "done"
    /\ cfg.TARGET_USER_ID = 0
    /\ ~PairInert
    /\ pairSeen = Members
    /\ evaluated = Members
    /\ \E i \in RemoveCalls(1) : Failed(i)
    /\ \E j \in 1..Len(log) : Failed(j) /\ log[j].member # 1

\* C19: the grant role is resolved before the role-pair scan starts; in a run
\* where it cannot be resolved the scan is never entered: no removeRole call
\* and no pair DM is made, no member is looked at or counted and no role
\* changes, also for members that hold the primary and a secondary role.
C19_UnresolvedGrantRoleSkipsPairs ==
    /\ pc \in {"pairs", "pairscan", "tenure"} => cfg.ROLE_ID \in GuildRoles
    /\ cfg.ROLE_ID \notin GuildRoles =>
         /\ \A m \in Members : RemoveCalls(m) = {} /\ PairDMs(m) = {}
         /\ log = <<>>
         /\ pairSeen = {} /\ pairCounted = {} /\ affected = 0
         /\ roles = roles0

\* a finished real run with an unresolvable grant role over a guild with a
\* member the configured, resolvable pair rule applies to
C19_Witness ==
    /\ pc = "done"
    /\ cfg.ROLE_ID \notin GuildRoles
    /\ ~cfg.DRY_RUN
    /\ \E m \in Members : PairQualifiesAtStart(m)

\* position k of the configured list is the first one whose role is known to
\* the guild and was held by m when the role-pair loop read it
FirstResolvedHeld(m, k) ==
    /\ k \in HeldSecondary(m)
    /\ \A j \in 1..(k - 1) :
         \/ cfg.PAIR_SECONDARY_ROLE_IDS[j] \notin GuildRoles
         \/ cfg.PAIR_SECONDARY_ROLE_IDS[j] \notin pairSnap[m]

\* C20: a secondary role that is not found keeps its place in sec_roles as an
\* entry that matches nobody, so the template of a match is the one at the
\* role's position in the configured list; a member none of whose held roles
\* is a resolved secondary role gets no removeRole call and no pair DM.
C20_UnresolvedSecondaryKeepsPositions ==
    /\ pc \in {"pairscan", "tenure", "done"} /\ pairSeen # {} =>
         /\ Len(sec_roles) = Len(cfg.PAIR_SECONDARY_ROLE_IDS)
         /\ \A k \in 1..Len(sec_roles) :
              sec_roles[k] = IF cfg.PAIR_SECONDARY_ROLE_IDS[k] \in GuildRoles
                             THEN cfg.PAIR_SECONDARY_ROLE_IDS[k] ELSE 0
    /\ \A m \in pairSeen :
         /\ \A k \in 1..Len(cfg.PAIR_SECONDARY_ROLE_IDS) :
              (FirstResolvedHeld(m, k) /\ PairDMs(m) # {}) =>
                 /\ k <= Len(cfg.PAIR_DM_MESSAGES)
                 /\ PairTextsSent(m)[1] = Lines(cfg.PAIR_DM_MESSAGES[k])[1]
                 /\ \A i \in 1..Len(PairTextsSent(m)) :
                      PairTextsSent(m)[i] = Lines(cfg.PAIR_DM_MESSAGES[k])[i]
         /\ HeldSecondary(m) = {} =>
              /\ RemoveCalls(m) = {}
              /\ PairDMs(m) = {}
              /\ m \notin pairCounted

\* a finished real run whose first secondary role is not found: a member
\* holding the second one got template 2, and a member holding the primary
\* role but no resolved secondary role was left alone
C20_Witness ==
    /\ pc = "done"
    /\ Len(cfg.PAIR_SECONDARY_ROLE_IDS) = 2
    /\ cfg.PAIR_SECONDARY_ROLE_IDS[1] \notin GuildRoles
    /\ \E m1, m2 \in pairSeen :
         /\ HeldSecondary(m1) = {2}
         /\ m1 \in pairCounted
         /\ PairTextsSent(m1) = << <<"c">> >>
         /\ cfg.PAIR_PRIMARY_ROLE_ID \in pairSnap[m2]
         /\ HeldSecondary(m2) = {}
         /\ RemoveCalls(m2) = {}
         /\ cfg.PAIR_PRIMARY_ROLE_ID \in roles[m2]

====
